---- MODULE Spec2Model ----
(***************************************************************************)
(* A model of CylindricalCell (src/src/cylindrical_cell.cpp): the          *)
(* constructor's sanity checks and volume computation, and solve(), made   *)
(* of calculate_collision_probabilities() and solve_systems().             *)
(*                                                                         *)
(* Numbers.  The code computes in IEEE doubles.  The model computes in     *)
(* exact rationals <<n, d>> (d > 0, lowest terms) and has one extra value, *)
(* NaN == <<0, 0>>, which stands for every non-finite or meaningless       *)
(* double (inf, nan, the output of a solve with a singular matrix).  NaN   *)
(* is absorbing in every operation, as inf/nan are in the expressions of   *)
(* this file.                                                              *)
(*                                                                         *)
(* Indices are 0-based as in the code: a vector of length n is a function  *)
(* on 0..n-1; radii and materials given to the constructor are sequences   *)
(* and are converted on construction.                                      *)
(***************************************************************************)
EXTENDS Integers, Sequences, FiniteSets, TLC

\* ------------------------------------------------------------------ bounds
MaxRegions == 3
MaxRadius == 3
MaxSolves == 2

\* ------------------------------------------------------- exact arithmetic
Abs(x) == IF x < 0 THEN 0 - x ELSE x

RECURSIVE Gcd(_, _)
Gcd(a, b) == IF b = 0 THEN a ELSE Gcd(b, a % b)

NaN == <<0, 0>>

IsFinite(q) == q[2] # 0

Rat(n, d) ==
  IF d = 0 THEN NaN
  ELSE LET g == Gcd(Abs(n), Abs(d))
           s == IF d < 0 THEN 0 - 1 ELSE 1
       IN  <<(s * n) \div g, (s * d) \div g>>

R(n) == <<n, 1>>

\* the operations cancel common factors before they multiply, which keeps
\* the intermediate integers small; the value is the exact sum, product, ...
RAdd(a, b) ==
  IF IsFinite(a) /\ IsFinite(b)
  THEN LET g == Gcd(a[2], b[2])
       IN  Rat(a[1] * (b[2] \div g) + b[1] * (a[2] \div g), (a[2] \div g) * b[2])
  ELSE NaN

RNeg(a) == IF IsFinite(a) THEN <<0 - a[1], a[2]>> ELSE NaN

RSub(a, b) == RAdd(a, RNeg(b))

RMul(a, b) ==
  IF IsFinite(a) /\ IsFinite(b)
  THEN LET g1 == Gcd(Abs(a[1]), b[2])
           g2 == Gcd(Abs(b[1]), a[2])
       IN  Rat((a[1] \div g1) * (b[1] \div g2), (a[2] \div g2) * (b[2] \div g1))
  ELSE NaN

\* a / 0 is inf or nan in the code: NaN here
RDiv(a, b) ==
  IF IsFinite(a) /\ IsFinite(b) /\ b[1] # 0
  THEN RMul(a, Rat(b[2], b[1])) ELSE NaN

\* sum of f[0] + ... + f[n-1], left to right as the += loops of the code
RECURSIVE RSum(_, _)
RSum(f, n) == IF n = 0 THEN R(0) ELSE RAdd(RSum(f, n - 1), f[n - 1])

\* largest s with s*s <= n (std::sqrt on the model's integer grid)
RECURSIVE ISqrtFrom(_, _)
ISqrtFrom(n, s) == IF (s + 1) * (s + 1) > n THEN s ELSE ISqrtFrom(n, s + 1)
ISqrt(n) == ISqrtFrom(n, 0)

\* --------------------------------------------------------------- materials
\* MGCrossSections records reachable through the shared_ptr handles passed
\* to the constructor.  Handle 0 is nullptr; handle h > 0 is MatLib[h].
\* Etr, Es_tr and Er_tr are indexed by group (0-based in the code, so group
\* g is element g + 1 of the sequence).
MatLib == <<
  [ngroups |-> 1, Etr |-> <<2>>,    Es_tr |-> <<1>>,    Er_tr |-> <<1>>],
  [ngroups |-> 1, Etr |-> <<1>>,    Es_tr |-> <<0>>,    Er_tr |-> <<1>>],
  [ngroups |-> 1, Etr |-> <<0>>,    Es_tr |-> <<0>>,    Er_tr |-> <<0>>],
  [ngroups |-> 2, Etr |-> <<1, 2>>, Es_tr |-> <<0, 1>>, Er_tr |-> <<1, 1>>],
  [ngroups |-> 0, Etr |-> << >>,    Es_tr |-> << >>,    Er_tr |-> << >>] >>

nullptr == 0

Handles == {nullptr} \cup DOMAIN MatLib

\* the records the handles point to; they are owned by the caller and start
\* out as MatLib
VARIABLE matdata

mat_ngroups(h) == matdata[h].ngroups
mat_Etr(h, g) == matdata[h].Etr[g + 1]
mat_Es_tr(h, g) == matdata[h].Es_tr[g + 1]
mat_Er_tr(h, g) == matdata[h].Er_tr[g + 1]

PI == 3

\* ------------------------------------------------------------- constructor
\* radii_.size() != mats_.size()
SizesDiffer(r, m) == Len(r) # Len(m)

\* variant: the minimum is taken to be one region
TooFewRegions_one(r) == Len(r) < 1

\* radii_.size() < 2
TooFewRegions(r) == Len(r) < 2

\* std::is_sorted: no element is smaller than its predecessor
IsSorted(r) == \A i \in 1..(Len(r) - 1) : ~(r[i + 1] < r[i])

\* variant: a zero radius is let through
FrontNotPositive_strict(r) == r[1] < 0

\* radii_.front() <= 0.
FrontNotPositive(r) == r[1] <= 0

\* some mat == nullptr
HasNullMat(m) == \E i \in 1..Len(m) : m[i] = nullptr

\* mats_[0]->ngroups()
FirstNGroups(m) == mat_ngroups(m[1])

\* variant: the loop stops one material short
GroupsDiffer_short(m, ng) == \E i \in 1..(Len(m) - 1) : mat_ngroups(m[i]) # ng

\* some mat->ngroups() != ngroups_
GroupsDiffer(m, ng) == \E i \in 1..Len(m) : mat_ngroups(m[i]) # ng

\* The sanity checks in the order the constructor makes them: the message of
\* the first ScarabeeException thrown, or "none".
CtorError(r, m) ==
  IF SizesDiffer(r, m)
    THEN "Number of radii does not match the number of materials."
  ELSE IF TooFewRegions(r)
    THEN "Must have at least 2 regions."
  ELSE IF ~IsSorted(r)
    THEN "Radii are not sorted."
  ELSE IF FrontNotPositive(r)
    THEN "All radii must be > 0."
  ELSE IF HasNullMat(m)
    THEN "Nullptr found in materials."
  ELSE IF FirstNGroups(m) = 0
    THEN "Must have at least 1 energy group."
  ELSE IF GroupsDiffer(m, FirstNGroups(m))
    THEN "Not all materials have the same number of energy groups."
  ELSE "none"

\* the messages of the sanity checks, in the order of the checks
CtorMessages ==
  <<"Number of radii does not match the number of materials.",
    "Must have at least 2 regions.",
    "Radii are not sorted.",
    "All radii must be > 0.",
    "Nullptr found in materials.",
    "Must have at least 1 energy group.",
    "Not all materials have the same number of energy groups.">>

\* the number of checks that were made and passed before the one that threw
ChecksPassed(r, m) ==
  LET e == CtorError(r, m) IN
  IF e = "none" THEN Len(CtorMessages)
  ELSE (CHOOSE k \in 1..Len(CtorMessages) : CtorMessages[k] = e) - 1

\* variant: radii_.front() is read before any check
FrontIsRead_always(n) == TRUE

\* radii_.front() is read by the fourth check, once n = 3 checks have passed
FrontIsRead(n) == n >= 3

\* mats_[0]->ngroups() is evaluated once five checks have passed
FirstGroupsQueried(n) == n >= 5

\* the loop over mat->ngroups() runs once six checks have passed; it stops
\* at the first material whose group count differs
GroupsLoopRuns(n) == n >= 6

GroupsLoopEnd(m) ==
  LET bad == {i \in 1..Len(m) : mat_ngroups(m[i]) # FirstNGroups(m)} IN
  IF bad = {} THEN Len(m) ELSE CHOOSE i \in bad : \A k \in bad : i <= k

\* nothing read yet.  index holds <<container, index, size of the container>>
\* for every element read by position, deref the handles that were
\* dereferenced.
NoReads == [index |-> {}, deref |-> {}]

\* the reads made by the constructor up to its return or its exception
CtorReads(r, m) ==
  LET n == ChecksPassed(r, m) IN
  [index |->
     (IF FrontIsRead(n) THEN {<<"radii_", 0, Len(r)>>} ELSE {})
     \cup (IF FirstGroupsQueried(n) THEN {<<"mats_", 0, Len(m)>>} ELSE {}),
   deref |->
     (IF FirstGroupsQueried(n) THEN {m[1]} ELSE {})
     \cup (IF GroupsLoopRuns(n)
           THEN {m[i] : i \in 1..GroupsLoopEnd(m)} ELSE {})]

\* variant: the inner disk is not subtracted
CalcVols_disk(rad) == [i \in DOMAIN rad |-> R(PI * rad[i] * rad[i])]

\* vols_[i] = PI*r_i*r_i, minus PI*r_{i-1}*r_{i-1} when i != 0
CalcVols(rad) ==
  [i \in DOMAIN rad |->
     IF i # 0
     THEN RSub(R(PI * rad[i] * rad[i]), R(PI * rad[i - 1] * rad[i - 1]))
     ELSE R(PI * rad[i] * rad[i])]

\* the std::vector copy of a constructor argument, 0-based
ZeroBased(sq) == [i \in 0..(Len(sq) - 1) |-> sq[i + 1]]

\* -------------------------------------------------------------------- state
VARIABLES
  in_radii,   \* constructor argument radii
  in_mats,    \* constructor argument mats (handles)
  cstate,     \* "new": constructor not yet run; "constructed"; "failed"
  err,        \* message of the exception thrown by the last call, or "none"
  radii_, vols_, mats_, ngroups_, solved_,
  p_, X_, Y_, Gamma_,
  pc,         \* position inside solve(): "idle", "cp", "sys_alloc", "sys"
  grp,        \* group counter g of the loop in progress
  ncalls,     \* history: number of solve() calls that have returned
  first,      \* history: the results as they were when the first solve() returned
  qres,       \* history: outcome of the last result query
  Sloc,       \* the local matrix S of calculate_collision_probabilities()
  locM,       \* the local matrix M of the last group iteration of solve_systems()
  pdone,      \* history: groups whose slice of p_ this solve() call has written
  sdone,      \* history: groups whose X_, Y_, Gamma_ this solve() call has stored
  reads,      \* history: element accesses and handle dereferences made so far
  tpc,        \* concurrent group loops: the position of each group's task
  overlap,    \* concurrent group loops: two tasks have used S at the same time
  dg_in,      \* DiffusionGeometry: constructor arguments
  dg,         \* DiffusionGeometry: the object
  dg_res,     \* DiffusionGeometry: the last call and what it returned
  c2d,        \* Cartesian2D: the object
  py_res      \* Cartesian2D: the last Python call and what it returned

vars == <<in_radii, in_mats, cstate, err, radii_, vols_, mats_, ngroups_,
          solved_, p_, X_, Y_, Gamma_, pc, grp, ncalls, first, qres,
          matdata, Sloc, locM, pdone, sdone, reads, tpc, overlap,
          dg_in, dg, dg_res, c2d, py_res>>

cell == <<radii_, vols_, mats_, ngroups_, matdata>>
results == <<p_, X_, Y_, Gamma_>>
hist == <<ncalls, first, qres, reads>>
locals == <<Sloc, locM, pdone, sdone>>
partasks == <<tpc, overlap>>
diffgeom == <<dg_in, dg, dg_res>>
cart2d == <<c2d, py_res>>
others == <<partasks, diffgeom, cart2d>>

nregions == Cardinality(DOMAIN radii_)
Regions == 0..(nregions - 1)
Groups == 0..(ngroups_ - 1)

SeqsUpTo(S, n) == UNION {[1..k -> S] : k \in 0..n}

RadiusVals == (0 - 1)..MaxRadius

\* variant: the flag starts out set
InitialSolved_set == TRUE

\* member initialisers of the constructor
InitialSolved == FALSE
InitialNGroups == 0
Empty == << >>

\* no concurrent group tasks, no DiffusionGeometry, no Cartesian2D
NoParTasks == tpc = Empty /\ overlap = FALSE
NoDiffGeom == dg_in = Empty /\ dg = Empty /\ dg_res = Empty
NoCart2D == c2d = Empty /\ py_res = Empty

\* a CylindricalCell whose constructor has not run yet
NewCell ==
  /\ cstate = "new"
  /\ err = "none"
  /\ matdata = MatLib
  /\ radii_ = Empty /\ vols_ = Empty /\ mats_ = Empty
  /\ ngroups_ = InitialNGroups
  /\ solved_ = InitialSolved
  /\ p_ = Empty /\ X_ = Empty /\ Y_ = Empty /\ Gamma_ = Empty
  /\ pc = "idle" /\ grp = 0
  /\ ncalls = 0 /\ first = Empty /\ qres = "none"
  /\ Sloc = Empty /\ locM = Empty /\ pdone = {} /\ sdone = {}
  /\ reads = NoReads

Init ==
  /\ in_radii \in SeqsUpTo(RadiusVals, MaxRegions)
  /\ in_mats \in SeqsUpTo(Handles, MaxRegions)
  /\ NewCell
  /\ NoParTasks /\ NoDiffGeom /\ NoCart2D

\* CylindricalCell::CylindricalCell(radii, mats)
Construct ==
  /\ cstate = "new"
  /\ LET e == CtorError(in_radii, in_mats) IN
     IF e # "none"
     THEN /\ cstate' = "failed"
          /\ err' = e
          /\ UNCHANGED <<cell, solved_>>
     ELSE /\ cstate' = "constructed"
          /\ err' = "none"
          /\ radii_' = ZeroBased(in_radii)
          /\ mats_' = ZeroBased(in_mats)
          /\ ngroups_' = FirstNGroups(in_mats)
          /\ vols_' = CalcVols(ZeroBased(in_radii))
          /\ matdata' = matdata
          /\ UNCHANGED solved_
  /\ reads' = CtorReads(in_radii, in_mats)
  /\ UNCHANGED <<in_radii, in_mats, results, pc, grp, ncalls, first, qres,
                 locals, others>>

\* ----------------------------------------- collision-probability integrals
\* The Bickley-Naymark function Ki3 and the Gauss-Kronrod rule live in
\* utils/bickley.hpp and utils/gauss_kronrod.hpp.  They are stood in for by
\* functions on the model's integer grid with the properties the design
\* gives them: Ki3 is non-increasing and convex, takes a fixed value at 0 and
\* reaches 0 for large arguments; the quadrature is a fixed rule, linear in the
\* integrand, which is exact for constant integrands.
Ki3Tab == <<8, 4, 2, 1>>

Ki3(x) == IF x < Len(Ki3Tab) THEN Ki3Tab[x + 1] ELSE 0

\* the abscissa at which the rule samples the integrand on [a, b]
GKNode(a, b) == a

\* gk.integrate(f, a, b).first, given fy = f(GKNode(a, b))
GKIntegrate(fy, a, b) == (b - a) * fy

\* x[n] = sqrt(radii_[k+n]^2 - y^2), n = 0 .. j-k
ChordX(k, j, y) ==
  [n \in 0..(j - k) |-> ISqrt(radii_[k + n] * radii_[k + n] - y * y)]

\* double t = (s == 0 ? x[s] : x[s] - x[s-1])
SegLen(x, s) == IF s = 0 THEN x[s] ELSE x[s] - x[s - 1]

\* const double dtau = t * mat->Etr(g), mat = mats_[s + k]
DTau(x, s, k, g) == SegLen(x, s) * mat_Etr(mats_[s + k], g)

\* what iteration s of the segment loop adds to tau_pls
TauPlsAdd(x, s, k, i, g) ==
  IF s + k <= i THEN 2 * DTau(x, s, k, g) ELSE DTau(x, s, k, g)

\* variant: every segment adds its optical length to tau_min
TauMinAdd_once(x, s, k, i, g) == DTau(x, s, k, g)

\* what iteration s of the segment loop adds to tau_min
TauMinAdd(x, s, k, i, g) ==
  IF s + k <= i THEN 0 ELSE DTau(x, s, k, g)

\* tau_pls after the iterations s = 0 .. n-1 of the segment loop
RECURSIVE TauPls(_, _, _, _, _)
TauPls(x, n, k, i, g) ==
  IF n = 0 THEN 0
  ELSE TauPls(x, n - 1, k, i, g) + TauPlsAdd(x, n - 1, k, i, g)

\* tau_min after the iterations s = 0 .. n-1 of the segment loop
RECURSIVE TauMin(_, _, _, _, _)
TauMin(x, n, k, i, g) ==
  IF n = 0 THEN 0
  ELSE TauMin(x, n - 1, k, i, g) + TauMinAdd(x, n - 1, k, i, g)

\* the lambda of calculate_S_ij for shell k
Integrand(y, k, i, j, g) ==
  LET x == ChordX(k, j, y)
      n == j + 1 - k
  IN  Ki3(TauPls(x, n, k, i, g)) - Ki3(TauMin(x, n, k, i, g))

\* the integral from Rmin to Rmax for shell k
ShellIntegral(k, i, j, g) ==
  LET Rmin == IF k = 0 THEN 0 ELSE radii_[k - 1]
      Rmax == radii_[k]
      y == GKNode(Rmin, Rmax)
  IN  GKIntegrate(Integrand(y, k, i, j, g), Rmin, Rmax)

\* S_ij after the iterations k = 0 .. n-1 of the shell loop
RECURSIVE SumShells(_, _, _, _)
SumShells(n, i, j, g) ==
  IF n = 0 THEN 0
  ELSE SumShells(n - 1, i, j, g) + ShellIntegral(n - 1, i, j, g)

\* CylindricalCell::calculate_S_ij(i, j, g)
calculate_S_ij(i0, j0, g) ==
  LET i == IF i0 > j0 THEN j0 ELSE i0
      j == IF i0 > j0 THEN i0 ELSE j0
  IN  R(SumShells(i + 1, i, j, g))

\* the positions of radii_ and mats_ that calculate_S_ij(i, j, g) reads,
\* i <= j: Rmin, Rmax, radii_[k + n] and mats_[s + k] for n, s < j + 1 - k
SijReads(i, j) ==
  UNION {{<<"radii_", k - 1, nregions>> : d \in {k} \ {0}}
         \cup {<<"radii_", k, nregions>>}
         \cup {<<"radii_", k + n, nregions>> : n \in 0..(j - k)}
         \cup {<<"mats_", s + k, nregions>> : s \in 0..(j - k)} : k \in 0..i}

\* the reads of the "Load S" loops: calculate_S_ij(i, j, g) for i <= j
LoadSReads ==
  UNION {SijReads(c[1], c[2]) :
           c \in {d \in Regions \X Regions : d[1] <= d[2]}}

\* variant: S(j, i) is not assigned and keeps the 0 that S was filled with
SMirror_skip(up, i, j) == R(0)

\* if (j != i) S(j, i) = S(i, j), seen from the entry below the diagonal
SMirror(up, i, j) == up[j][i]

\* the local matrix S after the "Load S" loops for group g: the upper
\* triangle is computed, S(j, i) is assigned from S(i, j)
LoadS(g) ==
  LET up == [i \in Regions |-> [j \in Regions |->
               IF i <= j THEN calculate_S_ij(i, j, g) ELSE R(0)]]
  IN  [i \in Regions |-> [j \in Regions |->
         IF i <= j THEN up[i][j] ELSE SMirror(up, i, j)]]

\* p_(g, i, j) for i <= j as the "load p" loop computes it from S
PUpper(S, i, j, g) ==
  LET t0 == RMul(R(2), S[i][j])
      t1 == IF i > 0 /\ j > 0 THEN RAdd(t0, RMul(R(2), S[i - 1][j - 1])) ELSE t0
      t2 == IF i > 0 THEN RAdd(t1, RMul(R(0 - 2), S[i - 1][j])) ELSE t1
      t3 == IF j > 0 THEN RAdd(t2, RMul(R(0 - 2), S[i][j - 1])) ELSE t2
  IN  IF i = j THEN RAdd(t3, RMul(vols_[i], R(mat_Etr(mats_[i], g)))) ELSE t3

\* variant: the mirror assignment is left out, p_(g, j, i) stays as allocated
PMirror_skip(S, i, j, g) == R(0)

\* if (i != j) p_(g, j, i) = p_(g, i, j)
PMirror(S, i, j, g) == PUpper(S, j, i, g)

\* the slice p_(g, :, :) after the "load p" loops have read the matrix S
LoadPFrom(S, g) ==
  [i \in Regions |-> [j \in Regions |->
     IF i <= j THEN PUpper(S, i, j, g) ELSE PMirror(S, i, j, g)]]

\* one iteration of the group loop: Load S, then load p from it
LoadP(g) == LoadPFrom(LoadS(g), g)

\* ------------------------------------------------------ dense linear solve
\* matrices are functions [0..n-1 -> [0..n-1 -> rational]]
Minor(M, n, c) ==
  [i \in 0..(n - 2) |-> [j \in 0..(n - 2) |->
     M[i + 1][IF j < c THEN j ELSE j + 1]]]

RECURSIVE Det(_, _)
RECURSIVE DetRow(_, _, _)
\* first-row expansion, columns 0 .. c-1
DetRow(M, n, c) ==
  IF c = 0 THEN R(0)
  ELSE LET j == c - 1
           t == RMul(M[0][j], Det(Minor(M, n, j), n - 1))
       IN  IF j % 2 = 0 THEN RAdd(DetRow(M, n, j), t)
           ELSE RSub(DetRow(M, n, j), t)

Det(M, n) == IF n = 0 THEN R(1) ELSE DetRow(M, n, n)

ReplaceCol(M, n, c, b) ==
  [i \in 0..(n - 1) |-> [j \in 0..(n - 1) |-> IF j = c THEN b[i] ELSE M[i][j]]]

\* M is singular or holds a non-finite entry
Degenerate(M, n) == Det(M, n)[1] = 0 \/ ~IsFinite(Det(M, n))

\* M.householderQr().solve(b): the solution of M x = b.  Eigen reports no
\* error; for a degenerate M the returned numbers are meaningless (NaN).
QrSolve(M, n, b) ==
  IF Degenerate(M, n) THEN [i \in 0..(n - 1) |-> NaN]
  ELSE [i \in 0..(n - 1) |-> RDiv(Det(ReplaceCol(M, n, i, b), n), Det(M, n))]

\* ------------------------------------------------------------ solve_systems
\* variant: the material of the row region
MatOfEntry_row(i, j) == mats_[i]

\* const auto& mat = mats_[j], the material used for the entry M(i, j)
MatOfEntry(i, j) == mats_[j]

\* the matrix M of group g, assembled from the collision probabilities P
MatrixM(P, g) ==
  [i \in Regions |-> [j \in Regions |->
     LET Etr == R(mat_Etr(MatOfEntry(i, j), g))
         Es_tr == R(mat_Es_tr(MatOfEntry(i, j), g))
         c_j == RDiv(Es_tr, Etr)
         m == RMul(RNeg(c_j), P[g][j][i])
     IN  IF j = i THEN RAdd(m, RMul(Etr, vols_[i])) ELSE m]]

\* b(i) = p_(g, k, i) / Etr_k
RhsX(P, g, k) ==
  [i \in Regions |-> RDiv(P[g][k][i], R(mat_Etr(mats_[k], g)))]

\* variant: the solution for source region k is stored as row k
SolveX_rows(P, g) ==
  LET M == MatrixM(P, g) IN
  [k \in Regions |-> [i \in Regions |-> QrSolve(M, nregions, RhsX(P, g, k))[i]]]

\* the slice X_(g, :, :): column k holds the solution for source region k
SolveX(P, g) ==
  LET M == MatrixM(P, g) IN
  [i \in Regions |-> [k \in Regions |-> QrSolve(M, nregions, RhsX(P, g, k))[i]]]

\* S(): the outer surface of the cell, 2 pi R_{N-1}
SurfaceS == R(2 * PI * radii_[nregions - 1])

\* variant: sum_p is left out
RhsY_nosum(P, g) ==
  LET coeff == RDiv(R(4), SurfaceS) IN
  [i \in Regions |->
     RMul(coeff, RMul(R(mat_Etr(mats_[i], g)), vols_[i]))]

\* b(i) = coeff * (Etr_i * Vol_i - sum_p), coeff = 4 / S()
RhsY(P, g) ==
  LET coeff == RDiv(R(4), SurfaceS) IN
  [i \in Regions |->
     RMul(coeff, RSub(RMul(R(mat_Etr(mats_[i], g)), vols_[i]),
                      RSum(P[g][i], nregions)))]

\* the slice Y_(g, :)
SolveY(P, g) == QrSolve(MatrixM(P, g), nregions, RhsY(P, g))

\* Gamma_[g] after the iterations i = 0 .. n-1 of
\*   Gamma_[g] += mats_[i]->Er_tr(g) * vols_[i] * Y_(g, i)
\* started from the value acc that Gamma_[g] holds before the loop
RECURSIVE GammaLoop(_, _, _, _)
GammaLoop(n, g, Yg, acc) ==
  IF n = 0 THEN acc
  ELSE LET i == n - 1 IN
       RAdd(GammaLoop(i, g, Yg, acc),
            RMul(RMul(R(mat_Er_tr(mats_[i], g)), vols_[i]), Yg[i]))

\* ------------------------------------------------------ container helpers
Zeros1(n) == [i \in 0..(n - 1) |-> R(0)]
Zeros2(n, m) == [i \in 0..(n - 1) |-> Zeros1(m)]
Zeros3(n, m, l) == [i \in 0..(n - 1) |-> Zeros2(m, l)]

\* p_.reallocate({ngroups, nregions, nregions}): storage of an unchanged
\* size keeps its contents, new storage is zero
ReallocP(t, ng, nr) == IF DOMAIN t = 0..(ng - 1) THEN t ELSE Zeros3(ng, nr, nr)

\* std::vector::resize(n, 0.): existing elements are kept, new ones are 0.
VecResize(v, n) == [i \in 0..(n - 1) |-> IF i \in DOMAIN v THEN v[i] ELSE R(0)]

\* the first index of the slices p_(g, ..), X_(g, ..), Y_(g, ..) and of
\* Gamma_[g] that the iteration for group g writes
OutSlice_shared(g) == 0

OutSlice(g) == g

\* ------------------------------------------------------------------ solve()
\* solve() is entered: calculate_collision_probabilities() allocates p_
SolveBegin ==
  /\ cstate = "constructed" /\ pc = "idle" /\ ncalls < MaxSolves
  /\ p_' = ReallocP(p_, ngroups_, nregions)
  /\ pc' = "cp" /\ grp' = 0
  /\ qres' = "none"
  /\ Sloc' = Zeros2(nregions, nregions)
  /\ pdone' = {} /\ sdone' = {}
  /\ UNCHANGED <<in_radii, in_mats, cstate, err, cell, solved_,
                 X_, Y_, Gamma_, ncalls, first, reads, locM, others>>

\* one iteration of the group loop of calculate_collision_probabilities()
CollisionGroup ==
  /\ pc = "cp" /\ grp < ngroups_
  /\ p_' = [p_ EXCEPT ![OutSlice(grp)] = LoadP(grp)]
  /\ Sloc' = Zeros2(nregions, nregions)
  /\ pdone' = pdone \cup {grp}
  /\ grp' = grp + 1
  /\ reads' = [reads EXCEPT !.index = @ \cup LoadSReads]
  /\ UNCHANGED <<in_radii, in_mats, cstate, err, cell, solved_,
                 X_, Y_, Gamma_, pc, ncalls, first, qres, locM, sdone, others>>

\* solve_systems() is entered: X_, Y_ are allocated and zeroed, Gamma_ resized
SystemsBegin_early ==
  /\ pc = "cp"
  /\ X_' = Zeros3(ngroups_, nregions, nregions)
  /\ Y_' = Zeros2(ngroups_, nregions)
  /\ Gamma_' = VecResize(Gamma_, ngroups_)
  /\ pc' = "sys" /\ grp' = 0
  /\ UNCHANGED <<in_radii, in_mats, cstate, err, cell, solved_, p_, hist,
                 locals, others>>

SystemsBegin ==
  /\ pc = "cp" /\ grp = ngroups_
  /\ X_' = Zeros3(ngroups_, nregions, nregions)
  /\ Y_' = Zeros2(ngroups_, nregions)
  /\ Gamma_' = VecResize(Gamma_, ngroups_)
  /\ pc' = "sys" /\ grp' = 0
  /\ UNCHANGED <<in_radii, in_mats, cstate, err, cell, solved_, p_, hist,
                 locals, others>>

\* one iteration of the group loop of solve_systems()
SystemsGroup ==
  /\ pc = "sys" /\ grp < ngroups_
  /\ LET Yg == SolveY(p_, grp)
         o == OutSlice(grp)
     IN
     /\ X_' = [X_ EXCEPT ![o] = SolveX(p_, grp)]
     /\ Y_' = [Y_ EXCEPT ![o] = Yg]
     /\ Gamma_' = [Gamma_ EXCEPT ![o] = GammaLoop(nregions, grp, Yg, Gamma_[o])]
  /\ locM' = MatrixM(p_, grp)
  /\ sdone' = sdone \cup {grp}
  /\ grp' = grp + 1
  /\ UNCHANGED <<in_radii, in_mats, cstate, err, cell, solved_, p_, pc, hist,
                 Sloc, pdone, others>>

\* the end of solve_systems(): solved_ = true, and solve() returns
SystemsEnd_release ==
  /\ pc = "sys" /\ grp = ngroups_
  /\ solved_' = TRUE
  /\ pc' = "idle" /\ grp' = 0
  /\ ncalls' = ncalls + 1
  /\ first' = IF ncalls = 0 THEN results ELSE first
  /\ mats_' = Empty
  /\ UNCHANGED <<in_radii, in_mats, cstate, err, radii_, vols_, ngroups_,
                 matdata, results, qres, reads, locals, others>>

SystemsEnd ==
  /\ pc = "sys" /\ grp = ngroups_
  /\ solved_' = TRUE
  /\ pc' = "idle" /\ grp' = 0
  /\ ncalls' = ncalls + 1
  /\ first' = IF ncalls = 0 THEN results ELSE first
  /\ UNCHANGED <<in_radii, in_mats, cstate, err, cell, results, qres, reads,
                 locals, others>>

\* a caller reads P, X, Y or Gamma between calls
QueryGuard == solved_

Query ==
  /\ cstate = "constructed" /\ pc = "idle" /\ qres = "none"
  /\ qres' = IF QueryGuard THEN "value" ELSE "UsageError"
  /\ UNCHANGED <<in_radii, in_mats, cstate, err, cell, solved_, results,
                 pc, grp, ncalls, first, reads, locals, others>>

\* ------------------------------------------- group loops as concurrent tasks
\* The iterations of the two group loops of solve() run as tasks: the tasks
\* of calculate_collision_probabilities() are joined before solve_systems()
\* starts, the tasks of solve_systems() are joined before solved_ is set.
\* tpc[g] is the position of the task of group g: "w" not started, "s" S
\* loaded, "p" p_ loaded, "x" X_ stored, "d" done.

\* variant: S counts as in use only until p_ has been loaded from it
Busy_loading(h) == tpc[h] = "s"

\* task h is between its first write of S and its S.fill(0.)
Busy(h) == tpc[h] \in {"s", "p"}

AllTasks(st) == \A g \in Groups : tpc[g] = st

ParSolveBegin ==
  /\ cstate = "constructed" /\ pc = "idle" /\ ncalls = 0
  /\ p_' = ReallocP(p_, ngroups_, nregions)
  /\ Sloc' = Zeros2(nregions, nregions)
  /\ pdone' = {} /\ sdone' = {}
  /\ tpc' = [g \in Groups |-> "w"]
  /\ overlap' = FALSE
  /\ pc' = "parcp"
  /\ qres' = "none"
  /\ UNCHANGED <<in_radii, in_mats, cstate, err, cell, solved_, X_, Y_, Gamma_,
                 grp, ncalls, first, reads, locM, diffgeom, cart2d>>

\* the "Load S" loops of the task of group g
ParLoadS ==
  \E g \in Groups :
  /\ pc = "parcp" /\ tpc[g] = "w"
  /\ Sloc' = LoadS(g)
  /\ overlap' = (overlap \/ \E h \in Groups \ {g} : Busy(h))
  /\ tpc' = [tpc EXCEPT ![g] = "s"]
  /\ reads' = [reads EXCEPT !.index = @ \cup LoadSReads]
  /\ UNCHANGED <<in_radii, in_mats, cstate, err, cell, solved_, results, pc,
                 grp, ncalls, first, qres, locM, pdone, sdone, diffgeom, cart2d>>

\* the "load p" loops of the task of group g
ParLoadP ==
  \E g \in Groups :
  /\ pc = "parcp" /\ tpc[g] = "s"
  /\ p_' = [p_ EXCEPT ![OutSlice(g)] = LoadPFrom(Sloc, g)]
  /\ pdone' = pdone \cup {g}
  /\ tpc' = [tpc EXCEPT ![g] = "p"]
  /\ UNCHANGED <<in_radii, in_mats, cstate, err, cell, solved_, X_, Y_, Gamma_,
                 pc, grp, hist, Sloc, locM, sdone, overlap, diffgeom, cart2d>>

\* S.fill(0.) of the task of group g
ParFill ==
  \E g \in Groups :
  /\ pc = "parcp" /\ tpc[g] = "p"
  /\ Sloc' = Zeros2(nregions, nregions)
  /\ tpc' = [tpc EXCEPT ![g] = "d"]
  /\ UNCHANGED <<in_radii, in_mats, cstate, err, cell, solved_, results, pc,
                 grp, hist, locM, pdone, sdone, overlap, diffgeom, cart2d>>

\* join of the collision probability tasks, then the allocations of
\* solve_systems()
ParSystemsBegin ==
  /\ pc = "parcp" /\ AllTasks("d")
  /\ X_' = Zeros3(ngroups_, nregions, nregions)
  /\ Y_' = Zeros2(ngroups_, nregions)
  /\ Gamma_' = VecResize(Gamma_, ngroups_)
  /\ tpc' = [g \in Groups |-> "w"]
  /\ pc' = "parsys"
  /\ UNCHANGED <<in_radii, in_mats, cstate, err, cell, solved_, p_, grp, hist,
                 locals, overlap, diffgeom, cart2d>>

\* matrix M and the X systems of the task of group g
ParSystemsX ==
  \E g \in Groups :
  /\ pc = "parsys" /\ tpc[g] = "w"
  /\ X_' = [X_ EXCEPT ![OutSlice(g)] = SolveX(p_, g)]
  /\ locM' = MatrixM(p_, g)
  /\ tpc' = [tpc EXCEPT ![g] = "x"]
  /\ UNCHANGED <<in_radii, in_mats, cstate, err, cell, solved_, p_, Y_, Gamma_,
                 pc, grp, hist, Sloc, pdone, sdone, overlap, diffgeom, cart2d>>

\* the Y system and Gamma of the task of group g
ParSystemsY ==
  \E g \in Groups :
  /\ pc = "parsys" /\ tpc[g] = "x"
  /\ LET Yg == SolveY(p_, g)
         o == OutSlice(g)
     IN
     /\ Y_' = [Y_ EXCEPT ![o] = Yg]
     /\ Gamma_' = [Gamma_ EXCEPT ![o] = GammaLoop(nregions, g, Yg, Gamma_[o])]
  /\ sdone' = sdone \cup {g}
  /\ tpc' = [tpc EXCEPT ![g] = "d"]
  /\ UNCHANGED <<in_radii, in_mats, cstate, err, cell, solved_, p_, X_,
                 pc, grp, hist, Sloc, locM, pdone, overlap, diffgeom, cart2d>>

\* join of the solve_systems() tasks, then solved_ = true
ParSystemsEnd ==
  /\ pc = "parsys" /\ AllTasks("d")
  /\ solved_' = TRUE
  /\ pc' = "idle"
  /\ ncalls' = ncalls + 1
  /\ first' = results
  /\ UNCHANGED <<in_radii, in_mats, cstate, err, cell, results, qres, reads,
                 grp, locals, partasks, diffgeom, cart2d>>

NextPar ==
  \/ Construct
  \/ ParSolveBegin
  \/ ParLoadS
  \/ ParLoadP
  \/ ParFill
  \/ ParSystemsBegin
  \/ ParSystemsX
  \/ ParSystemsY
  \/ ParSystemsEnd

\* the tasks are studied on the cells the constructor accepts that have more
\* than one group (one group is one task): radii that are positive and
\* sorted, one material with several groups per region
InitPar ==
  /\ in_radii \in {r \in SeqsUpTo(1..MaxRadius, MaxRegions) : IsSorted(r)}
  /\ in_mats \in [1..Len(in_radii) ->
                    {h \in DOMAIN MatLib : MatLib[h].ngroups >= 2}]
  /\ NewCell
  /\ NoParTasks /\ NoDiffGeom /\ NoCart2D
  /\ CtorError(in_radii, in_mats) = "none"

SpecPar == InitPar /\ [][NextPar]_vars

\* ======================================================= DiffusionGeometry
\* A DiffusionCrossSection is a non-null handle. An albedo a is written as
\* the integer 4 a, so the range [0, 1] is 0..AlbedoOne.
MaxCells == 4
AlbedoOne == 4
XsHandles == {1, 2}

\* std::optional: no value is << >>, the value v is <<v>>
nullopt == << >>
Some(v) == <<v>>

\* TileFill = std::variant<double, std::shared_ptr<DiffusionCrossSection>>
AlbedoFill(a) == [kind |-> "albedo", val |-> a]
XsFill(h) == [kind |-> "xs", val |-> h]
holds_double(t) == t.kind = "albedo"

\* DiffusionGeometry::Tile, default constructed
DefaultTile == [albedo |-> nullopt, xs |-> nullptr]

\* tile fills given to the constructors: the materials, the albedo 1 and the
\* albedo 3/2
TileFills ==
  {XsFill(h) : h \in XsHandles} \cup {AlbedoFill(AlbedoOne), AlbedoFill(6)}

\* the boundary albedos (xn, xp, yn, yp) given to the constructors: one for
\* each side, all in range, and the same with one of them out of range
BoundaryAlbedos ==
  {<<0, 1, 2, 3>>, <<0 - 1, 1, 2, 3>>, <<0, 5, 2, 3>>, <<0, 1, 0 - 1, 3>>,
   <<0, 1, 2, 5>>}

Neighbor == {"XN", "XP", "YN", "YP", "ZN", "ZP"}

RECURSIVE SumSeq(_)
SumSeq(sq) == IF sq = << >> THEN 0 ELSE sq[1] + SumSeq(Tail(sq))

Ones(n) == [k \in 1..n |-> 1]

\* lists of per-tile division counts, every tile divided at least once, with
\* at most MaxCells mesh cells along the axis
DivLists ==
  {d \in SeqsUpTo(1..MaxCells, MaxCells) : d # << >> /\ SumSeq(d) <= MaxCells}

\* coherent constructor arguments of the 1D overload
Args1D ==
  UNION {{[ndims |-> 1, tiles |-> t, dx |-> Ones(Len(xd)), xdivs |-> xd,
           dy |-> << >>, ydivs |-> << >>, albedo |-> b] :
            t \in [1..Len(xd) -> TileFills],
            b \in {<<c[1], c[2]>> : c \in BoundaryAlbedos}} :
         xd \in DivLists}

\* coherent constructor arguments of the 2D overload, at most MaxCells mesh
\* cells in all
Args2D ==
  UNION {{[ndims |-> 2, tiles |-> t, dx |-> Ones(Len(s[1])), xdivs |-> s[1],
           dy |-> Ones(Len(s[2])), ydivs |-> s[2], albedo |-> b] :
            t \in [1..(Len(s[1]) * Len(s[2])) -> TileFills],
            b \in BoundaryAlbedos} :
         s \in {c \in DivLists \X DivLists :
                  SumSeq(c[1]) * SumSeq(c[2]) <= MaxCells}}

\* incoherent arguments: the last tile missing, a tile without divisions, a
\* tile without width
Defects == {"tiles", "xdivs", "dx"}

Defective(a, d) ==
  CASE d = "tiles" -> [a EXCEPT !.tiles = SubSeq(a.tiles, 1, Len(a.tiles) - 1)]
    [] d = "xdivs" -> [a EXCEPT !.xdivs[1] = 0]
    [] d = "dx" -> [a EXCEPT !.dx[1] = 0]

AllInRange(b) == \A k \in DOMAIN b : b[k] >= 0 /\ b[k] <= AlbedoOne

DGArgs ==
  LET coherent == Args1D \cup Args2D IN
  coherent \cup
    {Defective(a, d) : a \in {c \in coherent : AllInRange(c.albedo)},
                       d \in Defects}

\* ------------------------------------------------ index conversion functions
\* ndims(): the number of axes of the mesh
ndims(g) == Len(g.geom_shape_)

\* what the loop yields if it reads x_divs_per_tile_[i_tile] past the end of
\* the list
PastEnd == 0 - 1

\* the loop of geom_x_indx_to_tile_x_indx() from the state (l, i_tile)
RECURSIVE TileLoop(_, _, _, _)
TileLoop(divs, i, l, i_tile) ==
  IF l < i
  THEN IF i_tile >= Len(divs) THEN PastEnd
       ELSE LET l1 == l + divs[i_tile + 1] IN
            IF l1 > i THEN i_tile ELSE TileLoop(divs, i, l1, i_tile + 1)
  ELSE i_tile

\* geom_x_indx_to_tile_x_indx(i), geom_y_indx_to_tile_y_indx(i) for an index
\* in range; divs is the division list of the axis
geom_indx_to_tile_indx(divs, i) == TileLoop(divs, i, 0, 0)

\* variant: the index one past the last mesh cell is let through
IndexOutOfRange_loose(n, i) == i > n

\* if (i >= nx())
IndexOutOfRange(n, i) == i >= n

\* the exception or the returned tile index
TileIndexResult(n, divs, i, mssg) ==
  IF IndexOutOfRange(n, i) THEN [err |-> mssg, val |-> 0]
  ELSE [err |-> "none", val |-> geom_indx_to_tile_indx(divs, i)]

geom_x_indx_to_tile_x_indx(g, i) ==
  TileIndexResult(g.nx_, g.x_divs_per_tile_, i, "Index along x is out of range.")

geom_y_indx_to_tile_y_indx(g, i) ==
  TileIndexResult(g.ny_, g.y_divs_per_tile_, i, "Index along y is out of range.")

geom_z_indx_to_tile_z_indx(g, i) ==
  TileIndexResult(g.nz_, g.z_divs_per_tile_, i, "Index along z is out of range.")

\* DiffusionGeometry::geom_to_tile_indx
geom_to_tile_indx(g, geo_indx) ==
  IF ndims(g) = 1
  THEN <<geom_indx_to_tile_indx(g.x_divs_per_tile_, geo_indx[1])>>
  ELSE <<geom_indx_to_tile_indx(g.x_divs_per_tile_, geo_indx[1]),
         geom_indx_to_tile_indx(g.y_divs_per_tile_, geo_indx[2])>>

\* xt::ravel_indices(.., geom_shape_, column_major)
RavelIndices(shape, geo_indx) ==
  IF Len(shape) = 1 THEN geo_indx[1] ELSE geo_indx[1] + shape[1] * geo_indx[2]

\* xt::unravel_indices(.., geom_shape_, column_major)
UnravelIndices(shape, flat) ==
  IF Len(shape) = 1 THEN <<flat>> ELSE <<flat % shape[1], flat \div shape[1]>>

\* DiffusionGeometry::geom_indx(m) for m < nmats
geom_indx(g, m) ==
  UnravelIndices(g.geom_shape_, g.mat_indx_to_flat_geom_indx_[m + 1])

\* std::lower_bound on a sorted table: the distance from begin() to the
\* first element that is not less than v
LowerBound(tab, v) ==
  LET ge == {k \in 1..Len(tab) : tab[k] >= v} IN
  IF ge = {} THEN Len(tab)
  ELSE (CHOOSE k \in ge : \A k1 \in ge : k <= k1) - 1

\* DiffusionGeometry::geom_to_mat_indx
geom_to_mat_indx(g, geo_indx) ==
  LowerBound(g.mat_indx_to_flat_geom_indx_,
             RavelIndices(g.geom_shape_, geo_indx))

\* ------------------------------------------------------------- constructors
\* albedo < 0. || albedo > 1.
AlbedoInvalid(a) == a < 0 \/ a > AlbedoOne

\* the Tile of a boundary: xn_.albedo = albedo_xn; xn_.xs = nullptr
BoundaryTile(a) == [albedo |-> Some(a), xs |-> nullptr]

\* the Tile a TileFill is stored as: tiles_(i, j - 1).albedo = std::get<double>(tile)
\* or tiles_(i, j - 1).xs = std::get<std::shared_ptr<..>>(tile)
TileOfFill(t) ==
  IF holds_double(t)
  THEN [DefaultTile EXCEPT !.albedo = Some(t.val)]
  ELSE [DefaultTile EXCEPT !.xs = t.val]

\* the members after the member initialisers
NewGeometry ==
  [tiles_ |-> << >>, xn_ |-> DefaultTile, xp_ |-> DefaultTile,
   yn_ |-> DefaultTile, yp_ |-> DefaultTile,
   x_divs_per_tile_ |-> << >>, y_divs_per_tile_ |-> << >>,
   z_divs_per_tile_ |-> << >>,
   nmats_ |-> 0, mat_indx_to_flat_geom_indx_ |-> << >>,
   nx_ |-> 0, ny_ |-> 0, nz_ |-> 0, geom_shape_ |-> << >>]

\* variant: no cell is skipped
SkipsCell_never(tile) == FALSE

\* if (tile.albedo) continue;
SkipsCell(tile) == tile.albedo # nullopt

\* the material table after k iterations of the loops over the mesh cells
\* (j outer, i inner): cells of tiles with an albedo are skipped
RECURSIVE MatTable(_, _)
MatTable(g, k) ==
  IF k = 0 THEN << >>
  ELSE LET geo_inds == <<(k - 1) % g.nx_, (k - 1) \div g.nx_>>
           tile == g.tiles_[geom_to_tile_indx(g, geo_inds)]
           sofar == MatTable(g, k - 1)
       IN  IF SkipsCell(tile) THEN sofar
           ELSE Append(sofar, RavelIndices(g.geom_shape_, geo_inds))

\* the first failing check of the 1D constructor, "none" if all pass
CtorError1D(a) ==
  IF Len(a.dx) # Len(a.xdivs) \/ Len(a.dx) # Len(a.tiles)
  THEN "The number of provided tiles, widths, and divisions does not agree."
  ELSE IF Len(a.dx) = 0 THEN "No tiles were provided."
  ELSE IF \E i \in 1..Len(a.dx) : a.dx[i] <= 0 THEN "dx is <= 0."
  ELSE IF \E i \in 1..Len(a.xdivs) : a.xdivs[i] = 0 THEN "xdivs is zero."
  ELSE IF AlbedoInvalid(a.albedo[1])
  THEN "Negative x albedo is invalid. Must be in range [0, 1]."
  ELSE IF AlbedoInvalid(a.albedo[2])
  THEN "Positive x albedo is invalid. Must be in range [0, 1]."
  ELSE IF \E i \in 1..Len(a.tiles) : holds_double(a.tiles[i])
  THEN "A 1D diffusion problem cannot have albedo tiles."
  ELSE IF ~IsSorted([m \in 1..SumSeq(a.xdivs) |-> m - 1])
  THEN "Material index to flat geometry index is not sorted."
  ELSE "none"

\* the object the 1D constructor builds when no check fails
Build1D(a) ==
  LET nx == SumSeq(a.xdivs) IN
  [NewGeometry EXCEPT
     !.x_divs_per_tile_ = a.xdivs,
     !.nx_ = nx,
     !.geom_shape_ = <<nx>>,
     !.xn_ = BoundaryTile(a.albedo[1]),
     !.xp_ = BoundaryTile(a.albedo[2]),
     !.tiles_ = [ti \in {<<i>> : i \in 0..(Len(a.dx) - 1)} |->
                   [DefaultTile EXCEPT !.xs = a.tiles[ti[1] + 1].val]],
     !.nmats_ = nx,
     !.mat_indx_to_flat_geom_indx_ = [m \in 1..nx |-> m - 1]]

\* the 2D object after "Assign all tiles": the fills are listed row by row
\* from the highest y tile row to the lowest
Tiles2D(a) ==
  LET ntx == Len(a.dx)
      nty == Len(a.dy)
  IN  [NewGeometry EXCEPT
         !.x_divs_per_tile_ = a.xdivs,
         !.y_divs_per_tile_ = a.ydivs,
         !.nx_ = SumSeq(a.xdivs),
         !.ny_ = SumSeq(a.ydivs),
         !.geom_shape_ = <<SumSeq(a.xdivs), SumSeq(a.ydivs)>>,
         !.xn_ = BoundaryTile(a.albedo[1]),
         !.xp_ = BoundaryTile(a.albedo[2]),
         !.yn_ = BoundaryTile(a.albedo[3]),
         !.yp_ = BoundaryTile(a.albedo[4]),
         !.tiles_ = [ti \in (0..(ntx - 1)) \X (0..(nty - 1)) |->
                       TileOfFill(a.tiles[(nty - 1 - ti[2]) * ntx + ti[1] + 1])]]

\* the object the 2D constructor builds when no check fails
Build2D(a) ==
  LET g == Tiles2D(a)
      tab == MatTable(g, g.nx_ * g.ny_)
  IN  [g EXCEPT !.mat_indx_to_flat_geom_indx_ = tab, !.nmats_ = Len(tab)]

\* the first failing check of the 2D constructor, "none" if all pass
CtorError2D(a) ==
  IF Len(a.dx) # Len(a.xdivs) \/ Len(a.dy) # Len(a.ydivs)
  THEN "The number of provided widths and divisions do not agree."
  ELSE IF Len(a.tiles) # Len(a.dx) * Len(a.dy)
  THEN "The number of provided tiles does not agree with the number of divisions."
  ELSE IF Len(a.dx) = 0 THEN "No tiles were provided along x."
  ELSE IF Len(a.dy) = 0 THEN "No tiles were provided along y."
  ELSE IF \E i \in 1..Len(a.dx) : a.dx[i] <= 0 THEN "dx is <= 0."
  ELSE IF \E i \in 1..Len(a.dy) : a.dy[i] <= 0 THEN "dy is <= 0."
  ELSE IF \E i \in 1..Len(a.xdivs) : a.xdivs[i] = 0 THEN "xdivs is zero."
  ELSE IF \E i \in 1..Len(a.ydivs) : a.ydivs[i] = 0 THEN "ydivs is zero."
  ELSE IF AlbedoInvalid(a.albedo[1])
  THEN "Negative x albedo is invalid. Must be in range [0, 1]."
  ELSE IF AlbedoInvalid(a.albedo[2])
  THEN "Positive x albedo is invalid. Must be in range [0, 1]."
  ELSE IF AlbedoInvalid(a.albedo[3])
  THEN "Negative y albedo is invalid. Must be in range [0, 1]."
  ELSE IF AlbedoInvalid(a.albedo[4])
  THEN "Positive y albedo is invalid. Must be in range [0, 1]."
  ELSE IF ~IsSorted(Build2D(a).mat_indx_to_flat_geom_indx_)
  THEN "Material index to flat geometry index is not sorted."
  ELSE "none"

\* ------------------------------------------------------------------ neighbor
NoIndex == [tile |-> DefaultTile, indx |-> nullopt, err |-> "none"]
Throw(mssg) == [NoIndex EXCEPT !.err = mssg]
Return(tile, indx) == [tile |-> tile, indx |-> indx, err |-> "none"]

\* geo_indx[0]--, geo_indx[0]++, geo_indx[1]--, geo_indx[1]++
Step(geo_indx, n) ==
  CASE n = "XN" -> [geo_indx EXCEPT ![1] = @ - 1]
    [] n = "XP" -> [geo_indx EXCEPT ![1] = @ + 1]
    [] n = "YN" -> [geo_indx EXCEPT ![2] = @ - 1]
    [] OTHER -> [geo_indx EXCEPT ![2] = @ + 1]

\* variant: the material index of the cell the search started from
NeighborIndex_self(g, geo_indx, from) == geom_to_mat_indx(g, from)

\* std::size_t mn = this->geom_to_mat_indx(geo_indx)
NeighborIndex(g, geo_indx, from) == geom_to_mat_indx(g, geo_indx)

\* the part neighbor_1d() and neighbor_2d() share once the edge cases are
\* past: step to the neighbour, fetch its tile, look up its material index
Adjacent(g, from, n) ==
  LET geo_indx == Step(from, n)
      tile == g.tiles_[geom_to_tile_indx(g, geo_indx)]
  IN  IF tile.xs = nullptr THEN Return(tile, nullopt)
      ELSE Return(tile, Some(NeighborIndex(g, geo_indx, from)))

neighbor_1d(g, m, n) ==
  IF n # "XN" /\ n # "XP"
  THEN Throw("Invalid neighbor requested for 1D geometry.")
  ELSE LET geo_indx == geom_indx(g, m) IN
       IF geo_indx[1] = 0 /\ n = "XN" THEN Return(g.xn_, nullopt)
       ELSE IF geo_indx[1] = g.nx_ - 1 /\ n = "XP" THEN Return(g.xp_, nullopt)
       ELSE Adjacent(g, geo_indx, n)

neighbor_2d(g, m, n) ==
  IF n = "ZN" \/ n = "ZP"
  THEN Throw("Invalid neighbor requested for 2D geometry.")
  ELSE LET geo_indx == geom_indx(g, m) IN
       IF geo_indx[1] = 0 /\ n = "XN" THEN Return(g.xn_, nullopt)
       ELSE IF geo_indx[1] = g.nx_ - 1 /\ n = "XP" THEN Return(g.xp_, nullopt)
       ELSE IF geo_indx[2] = 0 /\ n = "YN" THEN Return(g.yn_, nullopt)
       ELSE IF geo_indx[2] = g.ny_ - 1 /\ n = "YP" THEN Return(g.yp_, nullopt)
       ELSE Adjacent(g, geo_indx, n)

\* DiffusionGeometry::neighbor
neighbor(g, m, n) ==
  IF m >= g.nmats_ THEN Throw("Material index out of range.")
  ELSE IF ndims(g) = 1 THEN neighbor_1d(g, m, n)
  ELSE neighbor_2d(g, m, n)

\* ------------------------------------------------------------------- actions
NotConstructed == [state |-> "new", obj |-> NewGeometry, err |-> "none"]
NoCall == [call |-> "none", m |-> 0, n |-> "XN", ret |-> NoIndex]

InitDG ==
  /\ dg_in \in DGArgs
  /\ dg = NotConstructed
  /\ dg_res = NoCall
  /\ in_radii = << >> /\ in_mats = << >>
  /\ NewCell
  /\ NoParTasks /\ NoCart2D

\* either constructor: an exception leaves no object behind
DGConstruct ==
  /\ dg.state = "new"
  /\ LET e == IF dg_in.ndims = 1 THEN CtorError1D(dg_in) ELSE CtorError2D(dg_in)
     IN  dg' = IF e # "none"
               THEN [state |-> "failed", obj |-> NewGeometry, err |-> e]
               ELSE [state |-> "constructed",
                     obj |-> IF dg_in.ndims = 1 THEN Build1D(dg_in)
                             ELSE Build2D(dg_in),
                     err |-> "none"]
  /\ UNCHANGED <<in_radii, in_mats, cstate, err, cell, solved_, results, pc,
                 grp, hist, locals, partasks, dg_in, dg_res, cart2d>>

\* a call of neighbor(m, n); m = nmats is out of range
DGNeighbor ==
  /\ dg.state = "constructed"
  /\ \E m \in 0..dg.obj.nmats_ : \E n \in Neighbor :
       dg_res' = [call |-> "neighbor", m |-> m, n |-> n,
                  ret |-> neighbor(dg.obj, m, n)]
  /\ UNCHANGED <<in_radii, in_mats, cstate, err, cell, solved_, results, pc,
                 grp, hist, locals, partasks, dg_in, dg, cart2d>>

\* a call of geom_x_indx_to_tile_x_indx(i), or of the y or z function, with
\* an index up to one past the number of mesh cells of the longest axis
DGTileIndex ==
  /\ dg.state = "constructed"
  /\ \E axis \in {"x", "y", "z"} : \E i \in 0..(MaxCells + 1) :
       dg_res' = [call |-> "tile_indx", axis |-> axis, i |-> i,
                  ret |-> CASE axis = "x" -> geom_x_indx_to_tile_x_indx(dg.obj, i)
                            [] axis = "y" -> geom_y_indx_to_tile_y_indx(dg.obj, i)
                            [] axis = "z" -> geom_z_indx_to_tile_z_indx(dg.obj, i)]
  /\ UNCHANGED <<in_radii, in_mats, cstate, err, cell, solved_, results, pc,
                 grp, hist, locals, partasks, dg_in, dg, cart2d>>

NextDG == DGConstruct \/ DGNeighbor \/ DGTileIndex

SpecDG == InitDG /\ [][NextDG]_vars

\* ============================================================== Cartesian2D
\* The class is declared in moc/cartesian_2d.hpp: a rectangle of tiles with
\* the widths dx and the heights dy, centred on the origin.
MaxWidth == 2

WidthLists == SeqsUpTo(1..MaxWidth, MaxWidth) \ {<< >>}

\* the C++ member functions the Python methods are bound to
C2D_nx(c) == R(Len(c.dx))
C2D_ny(c) == R(Len(c.dy))
C2D_dx(c) == R(SumSeq(c.dx))
C2D_dy(c) == R(SumSeq(c.dy))
C2D_x_min(c) == Rat(0 - SumSeq(c.dx), 2)
C2D_x_max(c) == Rat(SumSeq(c.dx), 2)
C2D_y_min(c) == Rat(0 - SumSeq(c.dy), 2)
C2D_y_max(c) == Rat(SumSeq(c.dy), 2)

PyMethods == {"nx", "ny", "dx", "dy", "x_min", "x_max", "y_min", "y_max"}

\* init_Cartesian2D: .def(name, &Cartesian2D::member, doc)
PyBound(name, c) ==
  CASE name = "nx" -> C2D_nx(c)
    [] name = "ny" -> C2D_ny(c)
    [] name = "dx" -> C2D_dx(c)
    [] name = "dy" -> C2D_dy(c)
    [] name = "x_min" -> C2D_x_min(c)
    [] name = "x_max" -> C2D_x_min(c)
    [] name = "y_min" -> C2D_y_min(c)
    [] name = "y_max" -> C2D_y_min(c)

NoPyCall == [meth |-> "none", val |-> R(0)]

InitC2D ==
  /\ c2d \in {[state |-> "new", dx |-> x, dy |-> y] :
                x \in WidthLists, y \in WidthLists}
  /\ py_res = NoPyCall
  /\ in_radii = << >> /\ in_mats = << >>
  /\ NewCell
  /\ NoParTasks /\ NoDiffGeom

\* Cartesian2D(dx, dy) called from Python
C2DConstruct ==
  /\ c2d.state = "new"
  /\ c2d' = [c2d EXCEPT !.state = "constructed"]
  /\ UNCHANGED <<in_radii, in_mats, cstate, err, cell, solved_, results, pc,
                 grp, hist, locals, partasks, diffgeom, py_res>>

\* a call of one of the bound methods from Python
PyCall ==
  /\ c2d.state = "constructed"
  /\ \E name \in PyMethods :
       py_res' = [meth |-> name, val |-> PyBound(name, c2d)]
  /\ UNCHANGED <<in_radii, in_mats, cstate, err, cell, solved_, results, pc,
                 grp, hist, locals, partasks, diffgeom, c2d>>

NextC2D == C2DConstruct \/ PyCall

SpecC2D == InitC2D /\ [][NextC2D]_vars

Next ==
  \/ Construct
  \/ SolveBegin
  \/ CollisionGroup
  \/ SystemsBegin
  \/ SystemsGroup
  \/ SystemsEnd
  \/ Query

Spec == Init /\ [][Next]_vars

\* ------------------------------------------------------------- properties
Constructed == cstate = "constructed"
CtorFailed == cstate = "failed" /\ err # "none"
CtorRan == cstate # "new"

\* the results a solve() of the current geometry and materials computes
\* when nothing is carried over from an earlier call
FreshP == [g \in Groups |-> LoadP(g)]
FreshX == [g \in Groups |-> SolveX(FreshP, g)]
FreshY == [g \in Groups |-> SolveY(FreshP, g)]
FreshGamma == [g \in Groups |-> GammaLoop(nregions, g, FreshY[g], R(0))]
FreshResults == <<FreshP, FreshX, FreshY, FreshGamma>>

\* C1: once two or more solve() calls have returned, P, X, Y and Gamma are
\* what they were when the first call returned.
C1_SolveIdempotent == (pc = "idle" /\ ncalls >= 2) => results = first

StrictlyAscending(r) == \A i \in 1..(Len(r) - 1) : r[i] < r[i + 1]

\* C2: the constructor fails for every radii list that is not strictly
\* ascending (an adjacent pair with R_i >= R_{i+1}).
C2_NotAscendingFails == (CtorRan /\ ~StrictlyAscending(in_radii)) => CtorFailed

SomeGroupDegenerate == \E g \in Groups : Degenerate(MatrixM(p_, g), nregions)

\* C3: a solve() call that met a singular (or otherwise degenerate) matrix M
\* for some group has reported an error and has not marked the cell solved.
C3_SingularPropagates ==
  (pc = "idle" /\ ncalls = 1 /\ SomeGroupDegenerate) => (err # "none" /\ ~solved_)

\* C4: a query of P, X, Y or Gamma made while no solve() call has completed
\* yields a usage error, never a value.
C4_QueryUnsolved == (ncalls = 0 /\ qres # "none") => qres = "UsageError"

C4_Witness == Constructed /\ ncalls = 0 /\ qres = "UsageError"

\* C5: in every state, the cell is marked solved only if P, X, Y and Gamma of
\* every group are the completely computed values for the current geometry
\* and materials.
C5_NoPartialResults == solved_ => results = FreshResults

CollisionDone == (pc = "cp" /\ grp = ngroups_) \/ pc = "sys"
                   \/ (pc = "idle" /\ ncalls >= 1)

\* C6: once calculate_collision_probabilities() has completed, P[g](i,j) and
\* P[g](j,i) are the same value for every group and pair of regions.
C6_PSymmetric ==
  CollisionDone =>
    \A g \in Groups : \A i \in Regions : \A j \in Regions :
       p_[g][i][j] = p_[g][j][i]

C6_Witness ==
  CollisionDone /\ \E g \in Groups : \E i \in Regions : \E j \in Regions :
     i < j /\ p_[g][i][j] # R(0)

\* C7: a constructed cell has region count = number of radii = number of
\* materials >= 2; lists of different length, or fewer than two regions,
\* make the constructor fail.
C7_RegionCount ==
  /\ Constructed =>
       /\ nregions = Len(in_radii)
       /\ nregions = Len(in_mats)
       /\ DOMAIN mats_ = DOMAIN radii_
       /\ nregions >= 2
  /\ (CtorRan /\ (Len(in_radii) # Len(in_mats) \/ Len(in_radii) < 2)) => CtorFailed

C7_Witness == Constructed /\ nregions = 2

\* C8: every radius of a constructed cell is > 0; a zero or negative radius
\* anywhere in the list makes the constructor fail.
C8_RadiiPositive ==
  /\ Constructed => \A i \in Regions : radii_[i] > 0
  /\ (CtorRan /\ \E i \in 1..Len(in_radii) : in_radii[i] <= 0) => CtorFailed

C8_Witness ==
  /\ CtorFailed
  /\ Len(in_radii) = Len(in_mats) /\ Len(in_radii) >= 2
  /\ in_radii[1] <= 0 /\ IsSorted(in_radii)

\* C9: the constructor fails if the first material has zero groups or some
\* material's group count differs from the first's; a constructed cell has
\* ngroups >= 1 and every bound material has exactly ngroups groups.
C9_GroupCounts ==
  /\ Constructed =>
       /\ ngroups_ >= 1
       /\ \A i \in Regions : mat_ngroups(mats_[i]) = ngroups_
  /\ (/\ CtorRan
      /\ Len(in_mats) >= 1
      /\ ~HasNullMat(in_mats)
      /\ \/ mat_ngroups(in_mats[1]) = 0
         \/ \E i \in 1..Len(in_mats) : mat_ngroups(in_mats[i]) # mat_ngroups(in_mats[1]))
     => CtorFailed

C9_Witness ==
  /\ CtorFailed
  /\ err = "Not all materials have the same number of energy groups."

\* C10: the stored volume of region i is pi*(R_i^2 - R_{i-1}^2) with
\* R_{-1} = 0, and the volumes sum to the outer disk area pi*R_{N-1}^2.
C10_Volumes ==
  Constructed =>
    /\ \A i \in Regions :
         vols_[i] = R(PI * (radii_[i] * radii_[i]
                             - (IF i = 0 THEN 0 ELSE radii_[i - 1] * radii_[i - 1])))
    /\ RSum(vols_, nregions) = R(PI * radii_[nregions - 1] * radii_[nregions - 1])

C10_Witness == Constructed /\ nregions = 3 /\ StrictlyAscending(in_radii)

\* ---------------------------------------------------------------- C11
\* C11: a freshly constructed cell is unsolved; within one solve() call the
\* collision probabilities of every group are written before the response
\* matrix of any group is stored, and solved_ is set only once X_, Y_ and
\* Gamma_ of the last group are stored.
C11_SolveOrder ==
  /\ [](Constructed /\ ncalls = 0 => ~solved_)
  /\ [](sdone # {} => pdone = Groups)
  /\ [][solved_' # solved_ =>
          pc = "sys" /\ pdone = Groups /\ sdone = Groups /\ solved_']_vars

C11_Witness ==
  /\ Constructed /\ ngroups_ = 2 /\ ncalls = 0
  /\ pc = "sys" /\ sdone = Groups /\ ~solved_

\* ---------------------------------------------------------------- C12
\* the collision probabilities with every group but g made unreadable
Scrub(P, g) ==
  [h \in DOMAIN P |->
     IF h = g THEN P[h] ELSE [i \in Regions |-> [j \in Regions |-> NaN]]]

\* every group slice of t but the one of group g is the same in t1
OthersKept(t, t1, g) ==
  /\ DOMAIN t1 = DOMAIN t
  /\ \A h \in DOMAIN t : h # g => t1[h] = t[h]

\* C12: the computation for group g writes only the group-g slices of p_, X_,
\* Y_ and Gamma_ and leaves the slices of the other groups unchanged; of p_ it
\* reads only the group-g entries (next to radii, volumes and material data).
C12_GroupFrame ==
  [][/\ (pc = "cp" /\ grp < ngroups_) =>
          /\ OthersKept(p_, p_', grp)
          /\ UNCHANGED <<X_, Y_, Gamma_>>
     /\ (pc = "sys" /\ grp < ngroups_) =>
          /\ UNCHANGED p_
          /\ OthersKept(X_, X_', grp)
          /\ OthersKept(Y_, Y_', grp)
          /\ OthersKept(Gamma_, Gamma_', grp)
          /\ X_'[grp] = SolveX(Scrub(p_, grp), grp)
          /\ Y_'[grp] = SolveY(Scrub(p_, grp), grp)
          /\ Gamma_'[grp] = GammaLoop(nregions, grp, Y_'[grp], Gamma_[grp])
    ]_vars

C12_Witness ==
  /\ Constructed /\ ngroups_ = 2 /\ pc = "sys" /\ sdone = Groups
  /\ ~SomeGroupDegenerate
  /\ X_[0] # X_[1] /\ p_[0] # p_[1]

\* ---------------------------------------------------------------- C14
\* C14: once the constructor has returned, no operation changes the radii, the
\* volumes, the group count, the region-to-material bindings or the contents
\* of the material records.
C14_CellImmutable ==
  [][Constructed =>
       /\ radii_' = radii_ /\ vols_' = vols_ /\ ngroups_' = ngroups_
       /\ mats_' = mats_ /\ matdata' = matdata]_vars

C14_Witness ==
  /\ Constructed /\ solved_ /\ ncalls = MaxSolves /\ qres = "value"
  /\ radii_ = ZeroBased(in_radii) /\ mats_ = ZeroBased(in_mats)
  /\ matdata = MatLib

\* ---------------------------------------------------------------- C18
\* the optical length of shell s on the chord at offset y that starts in
\* shell k and ends at the outer radius of shell j
ShellTau(y, k, j, s, g) ==
  LET xs == ISqrt(radii_[s] * radii_[s] - y * y)
      xp == IF s = k THEN 0 ELSE ISqrt(radii_[s - 1] * radii_[s - 1] - y * y)
  IN  (xs - xp) * mat_Etr(mats_[s], g)

\* sum over the shells s = k..j of the optical length of shell s, taken lo
\* times for the shells with index <= i and hi times for the others
RECURSIVE WeightedTau(_, _, _, _, _, _, _)
WeightedTau(y, k, j, i, g, lo, hi) ==
  IF j < k THEN 0
  ELSE WeightedTau(y, k, j - 1, i, g, lo, hi)
         + (IF j <= i THEN lo ELSE hi) * ShellTau(y, k, j, j, g)

\* the shells k <= i <= j, the offsets y inside shell k and the groups g for
\* which calculate_S_ij() evaluates its integrand
TauCases ==
  {c \in Regions \X Regions \X Regions \X (0..MaxRadius) \X Groups :
     /\ c[1] <= c[2] /\ c[2] <= c[3]
     /\ (IF c[1] = 0 THEN 0 ELSE radii_[c[1] - 1]) <= c[4]
     /\ c[4] <= radii_[c[1]]}

TauPlsOf(c) == TauPls(ChordX(c[1], c[3], c[4]), c[3] + 1 - c[1], c[1], c[2], c[5])
TauMinOf(c) == TauMin(ChordX(c[1], c[3], c[4]), c[3] + 1 - c[1], c[1], c[2], c[5])

\* C18 as stated: over the shells s = k..j every shell with index <= i adds
\* twice its optical length to tau_plus and once to tau_minus, the shells
\* with index > i add once to each.
C18_TauAsStated ==
  Constructed =>
    \A c \in TauCases :
      /\ TauPlsOf(c) = WeightedTau(c[4], c[1], c[3], c[2], c[5], 2, 1)
      /\ TauMinOf(c) = WeightedTau(c[4], c[1], c[3], c[2], c[5], 1, 1)

\* C18 (amended): over the shells s = k..j every shell with index <= i adds
\* twice its optical length to tau_plus and nothing to tau_minus, the shells
\* with index > i add once to each.
C18_TauSums ==
  Constructed =>
    \A c \in TauCases :
      /\ TauPlsOf(c) = WeightedTau(c[4], c[1], c[3], c[2], c[5], 2, 1)
      /\ TauMinOf(c) = WeightedTau(c[4], c[1], c[3], c[2], c[5], 0, 1)

C18_Witness ==
  /\ Constructed /\ pdone # {}
  /\ \E c \in TauCases :
       /\ c[2] < c[3]
       /\ TauMinOf(c) > 0
       /\ ShellTau(c[4], c[1], c[3], c[2], c[5]) > 0
       /\ TauPlsOf(c) > TauMinOf(c)

\* ---------------------------------------------------------------- C19
\* 2 S(i,j) + 2 S(i-1,j-1) - 2 S(i-1,j) - 2 S(i,j-1), the terms with a
\* negative index left out, plus Etr_i V_i on the diagonal; S is the value
\* calculate_S_ij() has for the pair and the group
SecondDifference(i, j, g) ==
  LET Sij == RMul(R(2), calculate_S_ij(i, j, g))
      Smm == IF i > 0 /\ j > 0
             THEN RMul(R(2), calculate_S_ij(i - 1, j - 1, g)) ELSE R(0)
      Smj == IF i > 0 THEN RMul(R(2), calculate_S_ij(i - 1, j, g)) ELSE R(0)
      Sim == IF j > 0 THEN RMul(R(2), calculate_S_ij(i, j - 1, g)) ELSE R(0)
      dg1 == IF i = j THEN RMul(R(mat_Etr(mats_[i], g)), vols_[i]) ELSE R(0)
  IN  RAdd(RSub(RSub(RAdd(Sij, Smm), Smj), Sim), dg1)

\* C19: P(i,j) = 2 S(i,j) + 2 S(i-1,j-1) - 2 S(i-1,j) - 2 S(i,j-1) (terms with
\* a negative index omitted) plus Etr_i V_i when i = j, and every entry of S
\* that is read, S(i,j-1) below the diagonal for i = j included, holds the
\* value of the current group when it is read.
C19_PFormula ==
  Constructed =>
    \A g \in pdone : \A i \in Regions : \A j \in Regions :
      i <= j => p_[g][i][j] = SecondDifference(i, j, g)

C19_Witness ==
  /\ Constructed /\ ngroups_ = 2 /\ pdone = Groups
  /\ \E g \in Groups : \E i \in Regions :
       /\ i > 0
       /\ calculate_S_ij(i, i - 1, g) # R(0)
       /\ calculate_S_ij(i, i - 1, g) # calculate_S_ij(i, i - 1, 1 - g)
       /\ p_[g][i][i] # RMul(R(mat_Etr(mats_[i], g)), vols_[i])

\* ---------------------------------------------------------------- C20
\* c_j = Es_tr_j(g) / Etr_j(g) of region j's material
ScatterRatio(j, g) ==
  RDiv(R(mat_Es_tr(mats_[j], g)), R(mat_Etr(mats_[j], g)))

\* the group whose iteration of solve_systems() ran last
LastGroup == grp - 1

\* C20: M(i,j) = -c_j P[g](j,i) for i # j and
\* M(i,i) = -c_i P[g](i,i) + Etr_i(g) V_i, with c_j = Es_tr_j(g) / Etr_j(g)
\* taken from the material of the column region j.
C20_MatrixEntries ==
  (Constructed /\ pc = "sys" /\ grp > 0) =>
    \A i \in Regions : \A j \in Regions :
      locM[i][j] =
        IF i # j
        THEN RNeg(RMul(ScatterRatio(j, LastGroup), p_[LastGroup][j][i]))
        ELSE RAdd(RNeg(RMul(ScatterRatio(i, LastGroup), p_[LastGroup][i][i])),
                  RMul(R(mat_Etr(mats_[i], LastGroup)), vols_[i]))

C20_Witness ==
  /\ Constructed /\ pc = "sys" /\ grp > 0
  /\ \E i \in Regions : \E j \in Regions :
       /\ i # j
       /\ ScatterRatio(i, LastGroup) # ScatterRatio(j, LastGroup)
       /\ IsFinite(locM[i][j]) /\ IsFinite(locM[j][i])
       /\ locM[i][j] # locM[j][i]
       /\ locM[i][i] # R(0)

\* ---------------------------------------------------------------- C13
\* a solve() whose group iterations ran as tasks has returned
ParSolved == Constructed /\ pc = "idle" /\ ncalls = 1 /\ tpc # Empty

TileHolding(divs, i) ==
  CHOOSE t \in 0..(Len(divs) - 1) :
    /\ SumSeq(SubSeq(divs, 1, t)) <= i
    /\ i < SumSeq(SubSeq(divs, 1, t + 1))

\* the tile the mesh cell c lies in
TileOfCell(g, c) ==
  IF ndims(g) = 1 THEN g.tiles_[<<TileHolding(g.x_divs_per_tile_, c[1])>>]
  ELSE g.tiles_[<<TileHolding(g.x_divs_per_tile_, c[1]),
                  TileHolding(g.y_divs_per_tile_, c[2])>>]

\* the directions of a geometry with d axes
Directions(d) == IF d = 1 THEN {"XN", "XP"} ELSE {"XN", "XP", "YN", "YP"}

\* the mesh cell c has no neighbour cell in direction n
OnBoundary(g, c, n) ==
  \/ n = "XN" /\ c[1] = 0
  \/ n = "XP" /\ c[1] = g.nx_ - 1
  \/ n = "YN" /\ c[2] = 0
  \/ n = "YP" /\ c[2] = g.ny_ - 1

BoundaryOf(g, n) ==
  CASE n = "XN" -> g.xn_ [] n = "XP" -> g.xp_ [] n = "YN" -> g.yn_
    [] OTHER -> g.yp_

\* neighbor(m, n) has been called with a material index m and a direction n
\* of the geometry
NeighborCalled ==
  /\ dg.state = "constructed" /\ dg_res.call = "neighbor"
  /\ dg_res.m < dg.obj.nmats_
  /\ dg_res.n \in Directions(ndims(dg.obj))

ArgAlbedos(a) ==
  {a.albedo[k] : k \in DOMAIN a.albedo}
    \cup {a.tiles[k].val : k \in {i \in DOMAIN a.tiles : holds_double(a.tiles[i])}}

\* the albedos a constructed geometry holds
StoredAlbedos(g) ==
  LET tiles == {g.tiles_[ti] : ti \in DOMAIN g.tiles_}
                 \cup {g.xn_, g.xp_, g.yn_, g.yp_}
  IN  {t.albedo[1] : t \in {u \in tiles : u.albedo # nullopt}}

\* C16: construction fails for any albedo outside [0, 1], boundary albedo or
\* albedo tile of a 2D geometry, so every albedo stored in a successfully
\* constructed geometry lies in [0, 1].
C16_AlbedosInRange ==
  /\ (dg.state # "new" /\ \E v \in ArgAlbedos(dg_in) : AlbedoInvalid(v))
       => dg.state = "failed"
  /\ dg.state = "constructed"
       => \A v \in StoredAlbedos(dg.obj) : ~AlbedoInvalid(v)

\* ---------------------------------------------------------------- C17
\* C17: in the Python interface of Cartesian2D, x_max() returns the maximum x
\* coordinate and y_max() the maximum y coordinate of the geometry, which for
\* a geometry of non-zero width differ from x_min() and y_min().
C17_PyMaxIsMax ==
  /\ py_res.meth = "x_max" =>
       py_res.val = C2D_x_max(c2d) /\ py_res.val # C2D_x_min(c2d)
  /\ py_res.meth = "y_max" =>
       py_res.val = C2D_y_max(c2d) /\ py_res.val # C2D_y_min(c2d)

\* ---------------------------------------------------------------- C21
\* row i of the product M x, for a vector x over the regions
MatVec(M, x, i) == RSum([j \in Regions |-> RMul(M[i][j], x[j])], nregions)

\* column k of the slice X_(g, :, :)
ColumnX(g, k) == [i \in Regions |-> X_[g][i][k]]

\* C21: after the iteration of group g, for every source region k the
\* column k of X[g] (the entries X[g](i,k), all i) solves the system of the
\* matrix M built for group g with right-hand side b_k(i) = P[g](k,i)/Etr_k(g):
\* M X[g](:,k) = b_k, one system per region, nregions in all.
C21_XColumns ==
  (Constructed /\ pc = "sys" /\ grp > 0 /\ ~Degenerate(locM, nregions)) =>
    /\ DOMAIN X_[LastGroup] = Regions
    /\ \A k \in Regions :
         /\ DOMAIN ColumnX(LastGroup, k) = Regions
         /\ \A i \in Regions :
              MatVec(locM, ColumnX(LastGroup, k), i) =
                RDiv(p_[LastGroup][k][i], R(mat_Etr(mats_[k], LastGroup)))

C21_Witness ==
  /\ Constructed /\ pc = "sys" /\ grp > 0 /\ ~Degenerate(locM, nregions)
  /\ nregions >= 2
  /\ \E i \in Regions : \E k \in Regions :
       /\ i # k
       /\ X_[LastGroup][i][k] # X_[LastGroup][k][i]
       /\ X_[LastGroup][i][k] # R(0)
       /\ mat_Etr(mats_[k], LastGroup) > 1

\* ---------------------------------------------------------------- C22
\* b(i) = (4 / S_surf) (Etr_i(g) V_i - sum_j P[g](i,j))
RhsYStated(g, i) ==
  RMul(RDiv(R(4), SurfaceS),
       RSub(RMul(R(mat_Etr(mats_[i], g)), vols_[i]),
            RSum([j \in Regions |-> p_[g][i][j]], nregions)))

\* C22: after the iteration of group g, Y[g] solves the system of group g's
\* matrix M with right-hand side
\* b(i) = (4/S_surf) (Etr_i(g) V_i - sum over all regions j of P[g](i,j)),
\* where S_surf = S() is a function of the radii alone, the same for
\* every group.
C22_YSystem ==
  (Constructed /\ pc = "sys" /\ grp > 0 /\ ~Degenerate(locM, nregions)) =>
    /\ DOMAIN Y_[LastGroup] = Regions
    /\ \A i \in Regions :
         MatVec(locM, Y_[LastGroup], i) = RhsYStated(LastGroup, i)

C22_Witness ==
  /\ Constructed /\ pc = "sys" /\ grp = 2 /\ ~Degenerate(locM, nregions)
  /\ \E i \in Regions :
       /\ Y_[LastGroup][i] # R(0)
       /\ RSum([j \in Regions |-> p_[LastGroup][i][j]], nregions) # R(0)
       /\ RhsYStated(LastGroup, i) # R(0)
       /\ Y_[0][i] # Y_[1][i]

\* ---------------------------------------------------------------- C23
\* sum over all regions i of Er_tr_i(g) V_i Y[g](i), with the stored Y
BlacknessSum(g) ==
  RSum([i \in Regions |->
          RMul(RMul(R(mat_Er_tr(mats_[i], g)), vols_[i]), Y_[g][i])],
       nregions)

\* C23: when a solve() call has returned, for every group g the stored
\* Gamma[g] equals the sum over all regions i of Er_tr_i(g) V_i Y[g](i),
\* with Y[g] the value that call stored.
C23_GammaIsSum ==
  (Constructed /\ pc = "idle" /\ ncalls >= 1) =>
    \A g \in Groups : Gamma_[g] = BlacknessSum(g)

\* ---------------------------------------------------------------- C24
\* C24: in every cell the constructor accepted, the divisors of the
\* divisions that the iteration of group g has performed, Es_tr_j(g)/Etr_j(g)
\* for the matrix and P[g](k,i)/Etr_k(g) for the right-hand sides, are
\* non-zero: Etr_j(g) # 0 for every region j.
C24_DivisorsNonZero ==
  (Constructed /\ pc = "sys" /\ grp > 0) =>
    \A j \in Regions : mat_Etr(mats_[j], LastGroup) # 0

\* ---------------------------------------------------------------- C25
\* the division list and the number of mesh cells of an axis
AxisDivs(g, axis) ==
  CASE axis = "x" -> g.x_divs_per_tile_
    [] axis = "y" -> g.y_divs_per_tile_
    [] axis = "z" -> g.z_divs_per_tile_

\* the tiles t with (divisions of the tiles before t) <= i < (divisions of
\* the tiles up to and including t)
TilesHolding(divs, i) ==
  {t \in 0..(Len(divs) - 1) :
     /\ SumSeq(SubSeq(divs, 1, t)) <= i
     /\ i < SumSeq(SubSeq(divs, 1, t + 1))}

TileIndexCalled == dg.state = "constructed" /\ dg_res.call = "tile_indx"

\* C25: with all division counts >= 1, geom_x_indx_to_tile_x_indx(i) for a
\* mesh index i below the number of mesh cells of the axis returns (so the
\* loop has ended) without reading the division list past its end, and the
\* tile it returns is the one tile t with
\* sum(divs before t) <= i < sum(divs up to and including t); for an i at or
\* above the number of mesh cells the call fails with the out-of-range
\* error.  The y and z functions do the same on their axes.
C25_TileIndex ==
  TileIndexCalled =>
    LET divs == AxisDivs(dg.obj, dg_res.axis)
        i == dg_res.i
        ret == dg_res.ret
    IN  /\ \A k \in 1..Len(divs) : divs[k] >= 1
        /\ IF i < SumSeq(divs)
           THEN /\ ret.err = "none"
                /\ ret.val # PastEnd
                /\ TilesHolding(divs, i) = {ret.val}
           ELSE ret.err = "Index along " \o dg_res.axis \o " is out of range."

C25_Witness ==
  /\ TileIndexCalled
  /\ dg_res.axis = "y"
  /\ dg_res.i = 2
  /\ dg.obj.y_divs_per_tile_ = <<1, 2>>
  /\ dg_res.ret = [err |-> "none", val |-> 1]

\* ---------------------------------------------------------------- C26
\* the mesh cells of a geometry, as geometry indices
MeshCells(g) ==
  IF ndims(g) = 1 THEN {<<i>> : i \in 0..(g.nx_ - 1)}
  ELSE (0..(g.nx_ - 1)) \X (0..(g.ny_ - 1))

\* the mesh cells that lie in a material tile (a tile that is no albedo)
MaterialCells(g) == {c \in MeshCells(g) : TileOfCell(g, c).albedo = nullopt}

\* C26: in every constructed 1D or 2D geometry the table from material index
\* to flat geometry index is strictly increasing, nmats is the number of
\* mesh cells that lie in material tiles, and
\* geom_to_mat_indx(geom_indx(m)) = m for every material index m < nmats.
C26_MaterialTable ==
  dg.state = "constructed" =>
    LET g == dg.obj
        tab == g.mat_indx_to_flat_geom_indx_
    IN  /\ \A m \in 1..(Len(tab) - 1) : tab[m] < tab[m + 1]
        /\ g.nmats_ = Len(tab)
        /\ g.nmats_ = Cardinality(MaterialCells(g))
        /\ \A m \in 0..(g.nmats_ - 1) :
             geom_to_mat_indx(g, geom_indx(g, m)) = m

C26_Witness ==
  /\ dg.state = "constructed"
  /\ ndims(dg.obj) = 2
  /\ dg.obj.nx_ = 2 /\ dg.obj.ny_ = 2
  /\ dg.obj.nmats_ = 2
  /\ dg.obj.mat_indx_to_flat_geom_indx_ = <<1, 2>>
  /\ geom_indx(dg.obj, 1) = <<0, 1>>

\* ---------------------------------------------------------------- C27
\* every element read by position lies inside its container, and no null
\* handle was dereferenced
ReadsInRange ==
  /\ \A a \in reads.index : 0 <= a[2] /\ a[2] < a[3]
  /\ nullptr \notin reads.deref

FrontRead == \E a \in reads.index : a[1] = "radii_" /\ a[3] = Len(in_radii)
GroupsQueried == reads.deref # {}

\* the length and minimum-count checks pass for the arguments
SizesChecked == ~SizesDiffer(in_radii, in_mats) /\ ~TooFewRegions(in_radii)

\* C27 as stated: for every input the constructor reads no element of an
\* empty list and dereferences no null handle, the length, minimum-count
\* and null checks have all passed before radii_.front() is read or any
\* material's group count is queried, and every index of calculate_S_ij
\* into radii and materials is within 0..nregions-1.
C27_ChecksFirstAsStated ==
  /\ ReadsInRange
  /\ (CtorRan /\ (FrontRead \/ GroupsQueried)) =>
       (SizesChecked /\ ~HasNullMat(in_mats))

\* C27, amended: the same, with the order the constructor has: the length
\* and minimum-count checks have passed before radii_.front() is read, and
\* these and the null check have passed before any material's group count
\* is queried.
C27_ChecksFirst ==
  /\ ReadsInRange
  /\ (CtorRan /\ FrontRead) => SizesChecked
  /\ (CtorRan /\ GroupsQueried) => (SizesChecked /\ ~HasNullMat(in_mats))

C27_Witness ==
  /\ CtorFailed
  /\ err = "Nullptr found in materials."
  /\ FrontRead
  /\ ~GroupsQueried

====
